---- MODULE Spec2Model ----
(***************************************************************************)
(* A model of the signal-bot Client (src/src/client/Client.js): the        *)
(* constructor's settings validation, connect(), the setInterval health    *)
(* check with its teardown branch, and the three bus-interface listeners   *)
(* (error, MessageReceivedV2, MessageReceived) with the conversation       *)
(* cache they share; of the MessageV2 structure                            *)
(* (src/src/structures/MessageV2.js); and of the operations of a           *)
(* UserConversation (src/src/structures/UserConversation.js).              *)
(*                                                                         *)
(* JavaScript runs every callback to completion, so each action below is   *)
(* one callback (or one synchronous stretch of an async function between   *)
(* two awaits).  The daemon, the bus and the application are the           *)
(* environment: they choose when a timer fires, when and how a pending     *)
(* call settles, which signals arrive and when connect() is called.        *)
(***************************************************************************)
EXTENDS Integers, Sequences, FiniteSets, TLC

(***************************************************************************)
(* The bound of the model: how many stimuli the environment produces in    *)
(* one behaviour, counting the connect() calls of the application, the     *)
(* firings of the timers and the signals of the transport.                 *)
(***************************************************************************)
MaxStimuli == 5

(***************************************************************************)
(* JavaScript values, as far as the code looks at them: typeof, the        *)
(* number or the string.                                                   *)
(***************************************************************************)
JsNum(n) == [typeof |-> "number", num |-> n, str |-> ""]
JsStr(s) == [typeof |-> "string", num |-> 0, str |-> s]
JsUndefined == [typeof |-> "undefined", num |-> 0, str |-> ""]
JsArray(items) == [typeof |-> "object", items |-> items]
JsNaN == [typeof |-> "number", num |-> 0, str |-> "NaN"]

\* String.prototype.startsWith("+") on the strings the model uses.
PlusPrefixed == {"+15551234567"}
StartsWithPlus(s) == s \in PlusPrefixed

\* x || d : d replaces undefined and the empty string; an array, empty or
\* not, stays.
OrDefault(x, d) ==
    IF x.typeof = "undefined" \/ (x.typeof = "string" /\ x.str = "") THEN d ELSE x

(***************************************************************************)
(* this.settings after deepMerge(settings, defaultClientSettings)          *)
(* (Client.js line 29): the defaults, and the defaults with one setting    *)
(* replaced.                                                               *)
(***************************************************************************)
DefaultSettings ==
    [connectionCheckInterval |-> JsNum(5000),
     destination |-> JsStr("org.asamk.Signal"),
     type        |-> JsStr("system"),
     phoneNumber |-> JsStr("15551234567")]

SettingsInputs ==
    {DefaultSettings}
    \cup {[DefaultSettings EXCEPT !.connectionCheckInterval = v] :
             v \in {JsStr("5000"), JsUndefined}}
    \cup {[DefaultSettings EXCEPT !.destination = v] : v \in {JsUndefined}}
    \cup {[DefaultSettings EXCEPT !.type = v] : v \in {JsStr("session"), JsStr("user")}}
    \cup {[DefaultSettings EXCEPT !.phoneNumber = v] :
             v \in {JsUndefined, JsStr("+15551234567")}}

\* The settings of the set-up specification: those above, the numbers that
\* are not positive as connectionCheckInterval, further values that are not
\* what the constructor asks for, and a second account on either bus.
SetupInputs ==
    SettingsInputs
    \cup {[DefaultSettings EXCEPT !.connectionCheckInterval = v] :
             v \in {JsNum(0), JsNum(-1), JsNaN}}
    \cup {[DefaultSettings EXCEPT !.destination = v] : v \in {JsNum(1)}}
    \cup {[DefaultSettings EXCEPT !.type = v] : v \in {JsUndefined}}
    \cup {[DefaultSettings EXCEPT !.type = t, !.phoneNumber = JsStr("15557654321")] :
             t \in {JsStr("system"), JsStr("session")}}

\* A variant without the check of connectionCheckInterval.
ValidateSettingsNoInterval(s) ==
    IF s.destination.typeof # "string" THEN "TypeError: destination"
    ELSE IF ~(s.type.typeof = "string" /\ s.type.str \in {"system", "session"})
        THEN "TypeError: type"
    ELSE IF s.phoneNumber.typeof = "undefined" THEN "TypeError: phoneNumber required"
    ELSE IF s.phoneNumber.typeof = "string" /\ StartsWithPlus(s.phoneNumber.str)
        THEN "TypeError: phoneNumber plus"
    ELSE "ok"

\* The five checks of the constructor, in order; "ok" when none throws.
ValidateSettings(s) ==
    IF s.connectionCheckInterval.typeof # "number" THEN "TypeError: connectionCheckInterval"
    ELSE IF s.destination.typeof # "string" THEN "TypeError: destination"
    ELSE IF ~(s.type.typeof = "string" /\ s.type.str \in {"system", "session"})
        THEN "TypeError: type"
    ELSE IF s.phoneNumber.typeof = "undefined" THEN "TypeError: phoneNumber required"
    ELSE IF s.phoneNumber.typeof = "string" /\ StartsWithPlus(s.phoneNumber.str)
        THEN "TypeError: phoneNumber plus"
    ELSE "ok"

(***************************************************************************)
(* Buffer.prototype.toString("base64").                                    *)
(***************************************************************************)
B64Alphabet ==
    << "A","B","C","D","E","F","G","H","I","J","K","L","M","N","O","P",
       "Q","R","S","T","U","V","W","X","Y","Z","a","b","c","d","e","f",
       "g","h","i","j","k","l","m","n","o","p","q","r","s","t","u","v",
       "w","x","y","z","0","1","2","3","4","5","6","7","8","9","+","/" >>

B64Char(i) == B64Alphabet[i + 1]

\* A variant that leaves out the padding.
RECURSIVE Base64NoPadding(_)
Base64NoPadding(bytes) ==
    IF Len(bytes) = 0 THEN ""
    ELSE IF Len(bytes) = 1 THEN
        B64Char(bytes[1] \div 4) \o B64Char((bytes[1] % 4) * 16)
    ELSE IF Len(bytes) = 2 THEN
        B64Char(bytes[1] \div 4)
        \o B64Char((bytes[1] % 4) * 16 + bytes[2] \div 16)
        \o B64Char((bytes[2] % 16) * 4)
    ELSE
        B64Char(bytes[1] \div 4)
        \o B64Char((bytes[1] % 4) * 16 + bytes[2] \div 16)
        \o B64Char((bytes[2] % 16) * 4 + bytes[3] \div 64)
        \o B64Char(bytes[3] % 64)
        \o Base64NoPadding(SubSeq(bytes, 4, Len(bytes)))

RECURSIVE Base64(_)
Base64(bytes) ==
    IF Len(bytes) = 0 THEN ""
    ELSE IF Len(bytes) = 1 THEN
        B64Char(bytes[1] \div 4) \o B64Char((bytes[1] % 4) * 16) \o "=="
    ELSE IF Len(bytes) = 2 THEN
        B64Char(bytes[1] \div 4)
        \o B64Char((bytes[1] % 4) * 16 + bytes[2] \div 16)
        \o B64Char((bytes[2] % 16) * 4) \o "="
    ELSE
        B64Char(bytes[1] \div 4)
        \o B64Char((bytes[1] % 4) * 16 + bytes[2] \div 16)
        \o B64Char((bytes[2] % 16) * 4 + bytes[3] \div 64)
        \o B64Char(bytes[3] % 64)
        \o Base64(SubSeq(bytes, 4, Len(bytes)))


(***************************************************************************)
(* The state.                                                              *)
(***************************************************************************)
VARIABLES
    phase,          \* "new", "ready" (constructed) or "threw" (constructor threw)
    settings,       \* this.settings
    bus,            \* this._bus: a bus number, 0 while undefined
    busInterface,   \* this._busInterface: an interface number, 0 while undefined
    connectionCheckInterval, \* this._connectionCheckInterval: a timer number, 0 while undefined
    buses,          \* the buses opened so far: buses[c] is the one connect call c opened
    connectCalls,   \* connectCalls[c]: "pending" (awaiting getProxyObject), "resolved", "rejected"
    ifaces,         \* the interfaces resolved so far, by the number of their connect call
    timers,         \* the setInterval timers that are running
    probes,         \* the getRegistrationStatus calls in flight
    issued,         \* how many getRegistrationStatus calls the timers have issued
    lastOutcome,    \* the outcome of the probe settled last; [none |-> TRUE] before
    daemon,         \* "up", or "down" once the daemon has become unreachable
    cache,          \* this.conversations.cache: conversation identifier -> Conversation
    created,        \* how many Conversation objects have been constructed
    inbound,        \* the signals the transport has delivered, in delivery order
    emitted,        \* the events the Client has emitted to the application, in order
    requests,       \* the operations the application has called on conversations, in order
    calls           \* the method calls made on bus interfaces by those operations, in order

vars == <<phase, settings, bus, busInterface, connectionCheckInterval, buses,
          connectCalls, ifaces, timers, probes, issued, lastOutcome, daemon,
          cache, created, inbound, emitted, requests, calls>>

lifecycleVars == <<bus, busInterface, connectionCheckInterval, buses,
                   connectCalls, ifaces, timers>>

probeVars == <<probes, issued, lastOutcome>>

outboundVars == <<requests, calls>>

\* The stimuli so far, and whether the environment may produce another one.
Stimuli == Len(connectCalls) + issued + Len(inbound) + Len(requests)

MayStimulate == Stimuli < MaxStimuli

\* Before new Client(settings): nothing of the client exists.
Unconstructed ==
    /\ phase = "new"
    /\ bus = 0
    /\ busInterface = 0
    /\ connectionCheckInterval = 0
    /\ buses = <<>>
    /\ connectCalls = <<>>
    /\ ifaces = <<>>
    /\ timers = {}
    /\ probes = {}
    /\ issued = 0
    /\ lastOutcome = [none |-> TRUE]
    /\ daemon = "up"
    /\ cache = <<>>
    /\ created = 0
    /\ inbound = <<>>
    /\ emitted = <<>>
    /\ requests = <<>>
    /\ calls = <<>>

Init == settings \in SettingsInputs /\ Unconstructed

(***************************************************************************)
(* new Client(settings): the checks throw, or the client is ready.         *)
(***************************************************************************)
Construct ==
    /\ phase = "new"
    /\ phase' = IF ValidateSettings(settings) = "ok" THEN "ready" ELSE "threw"
    /\ UNCHANGED <<outboundVars, settings, lifecycleVars, probeVars, daemon, cache, created,
                   inbound, emitted>>

(***************************************************************************)
(* connect(), up to its await: the bus of the configured scope is opened   *)
(* and stored in this._bus, and getProxyObject is called on it.            *)
(***************************************************************************)
\* A variant that opens the system bus whatever the settings say.
BusScopeSystem(s) == "system"

BusScope(s) == IF s.type.str = "session" THEN "session" ELSE "system"

ObjectPath(s) == "/org/asamk/Signal/_" \o s.phoneNumber.str

Connect ==
    /\ phase = "ready"
    /\ MayStimulate
    /\ buses' = Append(buses, [scope |-> BusScope(settings), open |-> TRUE])
    /\ bus' = Len(buses) + 1
    /\ connectCalls' = Append(connectCalls, "pending")
    /\ UNCHANGED <<outboundVars, phase, settings, busInterface, connectionCheckInterval,
                   ifaces, timers, probeVars, daemon, cache, created, inbound,
                   emitted>>

(***************************************************************************)
(* connect(), after its await.  getProxyObject rejects: connect() rejects  *)
(* and nothing more happens.  It resolves: the interface is stored in      *)
(* this._busInterface, the health-check timer is started and stored in     *)
(* this._connectionCheckInterval, the three listeners are bound and the    *)
(* input signature of sendMessage is overwritten.                          *)
(***************************************************************************)
ListenerNames == {"error", "MessageReceivedV2", "MessageReceived"}

NewInterface(s) ==
    [destination |-> s.destination.str,
     path        |-> ObjectPath(s),
     listeners   |-> ListenerNames,
     sendMessageInSignature |-> "sasas"]

ConnectResolve(c, resolved) ==
    /\ c \in 1..Len(connectCalls)
    /\ connectCalls[c] = "pending"
    /\ IF resolved
         THEN /\ connectCalls' = [connectCalls EXCEPT ![c] = "resolved"]
              /\ ifaces' = (c :> NewInterface(settings)) @@ ifaces
              /\ busInterface' = c
              /\ timers' = timers \cup {c}
              /\ connectionCheckInterval' = c
         ELSE /\ connectCalls' = [connectCalls EXCEPT ![c] = "rejected"]
              /\ UNCHANGED <<ifaces, busInterface, timers, connectionCheckInterval>>
    /\ UNCHANGED <<outboundVars, phase, settings, bus, buses, probeVars, daemon, cache, created,
                   inbound, emitted>>

(***************************************************************************)
(* The setInterval callback, up to its await: timer t fires and calls      *)
(* this.user.getRegistrationStatus().  The call is in flight until the     *)
(* environment settles it; the timer fires again regardless.               *)
(***************************************************************************)
\* The delay setInterval is given for timer t (line 112).
TimerInterval(t) == settings.connectionCheckInterval

\* A variant that skips the call while an earlier one is in flight.
TickUnlessInFlight(t) ==
    /\ t \in timers
    /\ probes = {}
    /\ MayStimulate
    /\ issued' = issued + 1
    /\ probes' = probes \cup {[n |-> issued + 1, timer |-> t, down |-> (daemon = "down")]}
    /\ UNCHANGED <<outboundVars, phase, settings, lifecycleVars, lastOutcome, daemon, cache,
                   created, inbound, emitted>>

Tick(t) ==
    /\ t \in timers
    /\ MayStimulate
    /\ issued' = issued + 1
    /\ probes' = probes \cup {[n |-> issued + 1, timer |-> t, down |-> (daemon = "down")]}
    /\ UNCHANGED <<outboundVars, phase, settings, lifecycleVars, lastOutcome, daemon, cache,
                   created, inbound, emitted>>

(***************************************************************************)
(* How a probe settles.  An error e carries e.reply or not, and            *)
(* e.reply.body is a list of strings; a string is a sequence of segments,  *)
(* so that String.prototype.includes is containment of the needle.         *)
(***************************************************************************)
UnauthenticatedQuoteException ==
    "org.whispersystems.signalservice.internal.contacts.crypto.UnauthenticatedQuoteException"

Includes(str, needle) == \E k \in 1..Len(str) : str[k] = needle

ProbeOk == [ok |-> TRUE, hasReply |-> FALSE, body |-> <<>>]
ProbeError(hasReply, body) == [ok |-> FALSE, hasReply |-> hasReply, body |-> body]

ProbeOutcomes ==
    { ProbeOk,
      ProbeError(FALSE, <<>>),
      ProbeError(TRUE, << <<"org.freedesktop.DBus.Error.ServiceUnknown">> >>),
      ProbeError(TRUE, << <<"Error: ", UnauthenticatedQuoteException, ": quote">> >>) }

\* A variant that asks the body to be the allowlisted string.
IsBenignExact(e) ==
    /\ e.hasReply
    /\ Len(e.body) > 0
    /\ e.body[1] = <<UnauthenticatedQuoteException>>

\* e.reply?.body[0]?.includes("...UnauthenticatedQuoteException")
IsBenign(e) ==
    /\ e.hasReply
    /\ Len(e.body) > 0
    /\ Includes(e.body[1], UnauthenticatedQuoteException)

ProbeVerdict(r) == IF r.ok THEN "ok" ELSE IF IsBenign(r) THEN "benign" ELSE "fatal"

(***************************************************************************)
(* The disconnect branch, statement by statement, on the part of the       *)
(* state it touches.  The disconnect event records what its listener       *)
(* finds when it runs: whether the timer of                                *)
(* this._connectionCheckInterval is running, whether this._bus is open     *)
(* and which listeners this._busInterface has; and, to tell the events     *)
(* apart, the probe whose failure it reports, how many probes and          *)
(* connect() calls there have been and whether the daemon is reachable.    *)
(***************************************************************************)
ClearInterval(S) == [S EXCEPT !.timers = S.timers \ {connectionCheckInterval}]

\* A variant that opens a new transport in place of the closed one.
BusReconnect(S) ==
    [S EXCEPT !.buses = Append([S.buses EXCEPT ![bus].open = FALSE],
                               [scope |-> S.buses[bus].scope, open |-> TRUE])]

BusDisconnect(S) == [S EXCEPT !.buses = [S.buses EXCEPT ![bus].open = FALSE]]

RemoveAllListeners(S) ==
    [S EXCEPT !.ifaces = [S.ifaces EXCEPT ![busInterface].listeners = {}]]

EmitDisconnect(S) ==
    [S EXCEPT !.emitted = Append(S.emitted,
        [kind |-> "disconnect",
         probe        |-> S.probe,
         issued       |-> issued,
         connects     |-> Len(connectCalls),
         daemon       |-> daemon,
         timerRunning |-> connectionCheckInterval \in S.timers,
         busOpen      |-> S.buses[bus].open,
         listeners    |-> S.ifaces[busInterface].listeners])]

\* A variant that emits the event before it tears the session down.
TeardownEmitFirst(S) == RemoveAllListeners(BusDisconnect(ClearInterval(EmitDisconnect(S))))

Teardown(S) == EmitDisconnect(RemoveAllListeners(BusDisconnect(ClearInterval(S))))

(***************************************************************************)
(* The setInterval callback, after its await: probe n settles with         *)
(* outcome r.  A probe issued while the daemon is unreachable can only     *)
(* fail, and not with the daemon's own UnauthenticatedQuoteException.      *)
(***************************************************************************)
ProbeResolve(n, r) ==
    \E p \in probes :
    /\ p.n = n
    /\ p.down => ProbeVerdict(r) = "fatal"
    /\ probes' = probes \ {p}
    /\ lastOutcome' = r
    /\ IF ProbeVerdict(r) = "fatal"
         THEN LET S == Teardown([probe |-> p, timers |-> timers, buses |-> buses,
                                 ifaces |-> ifaces, emitted |-> emitted])
              IN  /\ timers' = S.timers
                  /\ buses' = S.buses
                  /\ ifaces' = S.ifaces
                  /\ emitted' = S.emitted
         ELSE UNCHANGED <<timers, buses, ifaces, emitted>>
    /\ UNCHANGED <<outboundVars, phase, settings, bus, busInterface, connectionCheckInterval,
                   connectCalls, issued, daemon, cache, created, inbound>>

(***************************************************************************)
(* The daemon becomes unreachable.                                         *)
(***************************************************************************)
DaemonDown ==
    /\ phase = "ready"
    /\ daemon = "up"
    /\ daemon' = "down"
    /\ UNCHANGED <<outboundVars, phase, settings, lifecycleVars, probeVars, cache, created,
                   inbound, emitted>>

(***************************************************************************)
(* The conversation registry (ConversationManager): a map from             *)
(* conversation identifier to Conversation.  A Conversation is an object:  *)
(* oid tells two objects with the same identifier apart.                   *)
(***************************************************************************)
CacheHas(c, id) == id \in DOMAIN c

CacheGet(c, id) == c[id]

ConversationFrom(id, oid) == [id |-> id, oid |-> oid]

AddToCache(c, conversation) == (conversation.id :> conversation) @@ c

(***************************************************************************)
(* The message structures.  Number(timestamp) turns the BigInt of the bus  *)
(* library into a number.                                                  *)
(***************************************************************************)
JsBigInt(n) == [typeof |-> "bigint", num |-> n, str |-> ""]

ToNumber(x) == JsNum(x.num)

\* A variant that stores extras and message as they come.
MessageV2NoDefaults(data) ==
    [timestamp    |-> data.timestamp,
     sender       |-> data.sender,
     extras       |-> data.extras,
     conversation |-> data.conversation,
     message      |-> data.message]

MessageV2(data) ==
    [timestamp    |-> data.timestamp,
     sender       |-> data.sender,
     extras       |-> OrDefault(data.extras, JsArray(<<>>)),
     conversation |-> data.conversation,
     message      |-> OrDefault(data.message, JsStr(""))]

Message(data) ==
    [timestamp    |-> data.timestamp,
     authorID     |-> data.authorID,
     conversation |-> data.conversation,
     attachments  |-> data.attachments,
     content      |-> OrDefault(data.content, JsStr(""))]

(***************************************************************************)
(* The signals of the transport.  A message signal carries (timestamp,     *)
(* sender, groupID, text, list); groupID is a byte array, empty for a      *)
(* direct message.                                                         *)
(***************************************************************************)
Signal(kind, sender, groupID, text) ==
    [kind |-> kind, timestamp |-> JsBigInt(1000), sender |-> sender,
     groupID |-> groupID, text |-> JsStr(text), list |-> JsArray(<<>>)]

\* A message signal whose text and list are any values: a string or a list,
\* empty or not, or nothing at all.
Payload(kind, sender, groupID, text, list) ==
    [kind |-> kind, timestamp |-> JsBigInt(1000), sender |-> sender,
     groupID |-> groupID, text |-> text, list |-> list]

MessageKinds == {"MessageReceivedV2", "MessageReceived"}

\* The signals of the lifecycle specification: an error, and a direct and a
\* group message of either kind.
Signals ==
    { Signal("error", "", <<>>, "EPIPE") }
    \cup { Signal(k, "+15551234567", g, "hello") :
              k \in MessageKinds, g \in {<<>>, <<102, 111>>} }

\* The signals of the dispatch specification: direct messages of two
\* senders, and group messages with group identifiers of every length
\* modulo 3.
Senders == {"+15551234567", "+15557654321"}

GroupIDs == {<<102>>, <<102, 111>>, <<102, 111, 111, 98>>}

DispatchSignals ==
    { Signal(k, a, <<>>, "hello") : k \in MessageKinds, a \in Senders }
    \cup { Signal(k, "+15551234567", g, "hello") : k \in MessageKinds, g \in GroupIDs }

\* groupID.length ? groupID.toString("base64") : sender
ConversationIDOf(sender, groupID) ==
    IF Len(groupID) # 0 THEN Base64(groupID) ELSE sender

(***************************************************************************)
(* The three listeners.  Each runs to completion on the signal that the    *)
(* transport has just delivered, which is the last one of inbound'.        *)
(***************************************************************************)
\* A variant that emits the error twice.
OnErrorTwice(ev) ==
    /\ emitted' = emitted \o << [kind |-> "error", src |-> Len(inbound) + 1,
                                 error |-> ev.text],
                                [kind |-> "error", src |-> Len(inbound) + 1,
                                 error |-> ev.text] >>
    /\ UNCHANGED <<cache, created>>

OnError(ev) ==
    /\ emitted' = Append(emitted, [kind |-> "error", src |-> Len(inbound) + 1,
                                   error |-> ev.text])
    /\ UNCHANGED <<cache, created>>

\* A variant that emits the message as a message event.
OnMessageReceivedV2AsMessage(ev) ==
    LET conversationID == ConversationIDOf(ev.sender, ev.groupID)
        hit == CacheHas(cache, conversationID)
        conversation == IF hit THEN CacheGet(cache, conversationID)
                        ELSE ConversationFrom(conversationID, created + 1)
    IN  /\ cache' = IF hit THEN cache ELSE AddToCache(cache, conversation)
        /\ created' = IF hit THEN created ELSE created + 1
        /\ emitted' = Append(emitted,
              [kind |-> "message", src |-> Len(inbound) + 1,
               message |-> MessageV2([timestamp |-> ToNumber(ev.timestamp),
                                      sender |-> ev.sender,
                                      conversation |-> conversation,
                                      extras |-> ev.list,
                                      message |-> ev.text])])

\* A variant that keeps the latest conversation only.
OnMessageReceivedV2Evicting(ev) ==
    LET conversationID == ConversationIDOf(ev.sender, ev.groupID)
        hit == CacheHas(cache, conversationID)
        conversation == IF hit THEN CacheGet(cache, conversationID)
                        ELSE ConversationFrom(conversationID, created + 1)
    IN  /\ cache' = IF hit THEN cache ELSE AddToCache(<<>>, conversation)
        /\ created' = IF hit THEN created ELSE created + 1
        /\ emitted' = Append(emitted,
              [kind |-> "messagev2", src |-> Len(inbound) + 1,
               message |-> MessageV2([timestamp |-> ToNumber(ev.timestamp),
                                      sender |-> ev.sender,
                                      conversation |-> conversation,
                                      extras |-> ev.list,
                                      message |-> ev.text])])

OnMessageReceivedV2(ev) ==
    LET conversationID == ConversationIDOf(ev.sender, ev.groupID)
        hit == CacheHas(cache, conversationID)
        conversation == IF hit THEN CacheGet(cache, conversationID)
                        ELSE ConversationFrom(conversationID, created + 1)
    IN  /\ cache' = IF hit THEN cache ELSE AddToCache(cache, conversation)
        /\ created' = IF hit THEN created ELSE created + 1
        /\ emitted' = Append(emitted,
              [kind |-> "messagev2", src |-> Len(inbound) + 1,
               message |-> MessageV2([timestamp |-> ToNumber(ev.timestamp),
                                      sender |-> ev.sender,
                                      conversation |-> conversation,
                                      extras |-> ev.list,
                                      message |-> ev.text])])

\* A variant that constructs a Conversation without looking one up.
OnMessageReceivedNoLookup(ev) ==
    LET conversationID == ConversationIDOf(ev.sender, ev.groupID)
        conversation == ConversationFrom(conversationID, created + 1)
    IN  /\ cache' = AddToCache(cache, conversation)
        /\ created' = created + 1
        /\ emitted' = Append(emitted,
              [kind |-> "message", src |-> Len(inbound) + 1,
               message |-> Message([timestamp |-> ToNumber(ev.timestamp),
                                    authorID |-> ev.sender,
                                    conversation |-> conversation,
                                    attachments |-> ev.list,
                                    content |-> ev.text])])

OnMessageReceived(ev) ==
    LET conversationID == ConversationIDOf(ev.sender, ev.groupID)
        hit == CacheHas(cache, conversationID)
        conversation == IF hit THEN CacheGet(cache, conversationID)
                        ELSE ConversationFrom(conversationID, created + 1)
    IN  /\ cache' = IF hit THEN cache ELSE AddToCache(cache, conversation)
        /\ created' = IF hit THEN created ELSE created + 1
        /\ emitted' = Append(emitted,
              [kind |-> "message", src |-> Len(inbound) + 1,
               message |-> Message([timestamp |-> ToNumber(ev.timestamp),
                                    authorID |-> ev.sender,
                                    conversation |-> conversation,
                                    attachments |-> ev.list,
                                    content |-> ev.text])])

(***************************************************************************)
(* The transport delivers signal ev on interface i.  The listener bound    *)
(* for that signal runs; with no listener bound the signal is dropped.     *)
(***************************************************************************)
Deliver(i, ev) ==
    /\ i \in DOMAIN ifaces
    /\ MayStimulate
    /\ inbound' = Append(inbound, [iface |-> i, signal |-> ev,
                                   heard |-> ev.kind \in ifaces[i].listeners])
    /\ IF ev.kind \notin ifaces[i].listeners
         THEN UNCHANGED <<cache, created, emitted>>
         ELSE CASE ev.kind = "error" -> OnError(ev)
                [] ev.kind = "MessageReceivedV2" -> OnMessageReceivedV2(ev)
                [] ev.kind = "MessageReceived" -> OnMessageReceived(ev)
    /\ UNCHANGED <<outboundVars, phase, settings, lifecycleVars, probeVars, daemon>>

(***************************************************************************)
(* The operations of a UserConversation (UserConversation.js).  Each is    *)
(* an async method with one await: up to the await it makes one method     *)
(* call on this.client._busInterface, and when the daemon has replied it   *)
(* returns or throws.  The application calls them on the conversations of  *)
(* direct messages it has received; a conversation in the cache implies a  *)
(* resolved interface.                                                     *)
(***************************************************************************)
JsBool(b) == [typeof |-> "boolean", bool |-> b]

\* A parameter with a default value: the default replaces undefined only.
DefaultParam(x, d) == IF x.typeof = "undefined" THEN d ELSE x

\* The conversations of type "user" the application holds.
UserConversations == {cache[id] : id \in DOMAIN cache \cap Senders}

\* The arguments the application passes.
Contents == {JsStr("hello")}

AttachmentLists == {JsUndefined, JsArray(<<JsStr("/tmp/a.png")>>)}

StopFlags == {JsUndefined, JsBool(TRUE)}

\* A method call on interface i for request q, not yet replied to.
MethodCall(i, q, method, args) ==
    [iface |-> i, request |-> q, method |-> method, args |-> args,
     reply |-> [pending |-> TRUE]]

\* The request of the application, awaiting the daemon.
Request(op, this, args) ==
    [op |-> op, this |-> this, args |-> args, state |-> "awaiting",
     value |-> JsUndefined]

\* sendMessage(content, attachments = []), up to its await.
SendMessage(this, content, attachments) ==
    /\ phase = "ready"
    /\ MayStimulate
    /\ this \in UserConversations
    /\ LET atts == DefaultParam(attachments, JsArray(<<>>))
           conversation == JsArray(<<JsStr(this.id)>>)
       IN  calls' = Append(calls, MethodCall(busInterface, Len(requests) + 1,
                               "sendMessage", <<content, atts, conversation>>))
    /\ requests' = Append(requests, Request("sendMessage", this, <<content, attachments>>))
    /\ UNCHANGED <<phase, settings, lifecycleVars, probeVars, daemon, cache,
                   created, inbound, emitted>>

\* A variant that leaves stop out of the call.
SendTypingNoStop(this, stop) ==
    /\ phase = "ready"
    /\ MayStimulate
    /\ this \in UserConversations
    /\ calls' = Append(calls, MethodCall(busInterface, Len(requests) + 1,
                            "sendTyping", <<JsStr(this.id)>>))
    /\ requests' = Append(requests, Request("sendTyping", this, <<stop>>))
    /\ UNCHANGED <<phase, settings, lifecycleVars, probeVars, daemon, cache,
                   created, inbound, emitted>>

\* sendTyping(stop = false), up to its await.
SendTyping(this, stop) ==
    /\ phase = "ready"
    /\ MayStimulate
    /\ this \in UserConversations
    /\ calls' = Append(calls, MethodCall(busInterface, Len(requests) + 1,
                            "sendTyping",
                            <<JsStr(this.id), DefaultParam(stop, JsBool(FALSE))>>))
    /\ requests' = Append(requests, Request("sendTyping", this, <<stop>>))
    /\ UNCHANGED <<phase, settings, lifecycleVars, probeVars, daemon, cache,
                   created, inbound, emitted>>

\* resetSession(), up to its await.
ResetSession(this) ==
    /\ phase = "ready"
    /\ MayStimulate
    /\ this \in UserConversations
    /\ LET conversation == JsArray(<<JsStr(this.id)>>)
       IN  calls' = Append(calls, MethodCall(busInterface, Len(requests) + 1,
                               "sendEndSessionMessage", <<conversation>>))
    /\ requests' = Append(requests, Request("resetSession", this, <<>>))
    /\ UNCHANGED <<phase, settings, lifecycleVars, probeVars, daemon, cache,
                   created, inbound, emitted>>

(***************************************************************************)
(* The daemon replies to a method call: with a value (the timestamp of     *)
(* the message as a BigInt for sendMessage, nothing for the other two      *)
(* methods) or with an error.  The awaiting operation resumes: on a value  *)
(* it returns, on an error the await throws and the operation rejects      *)
(* with that error.                                                        *)
(***************************************************************************)
DBusError(name) == [typeof |-> "object", error |-> name]

Replies(method) ==
    { [ok |-> TRUE,
       value |-> IF method = "sendMessage" THEN JsBigInt(1700000123) ELSE JsUndefined],
      [ok |-> FALSE, value |-> DBusError("org.asamk.Signal.Error.Failure")] }

\* A variant that returns the timestamp as the bus library delivered it.
ReturnValueRaw(op, value) == IF op = "sendMessage" THEN value ELSE JsUndefined

\* return Number(timestamp) in sendMessage; the other two return nothing.
ReturnValue(op, value) == IF op = "sendMessage" THEN ToNumber(value) ELSE JsUndefined

CallSettle(k, ok) ==
    /\ k \in 1..Len(calls)
    /\ calls[k].reply = [pending |-> TRUE]
    /\ \E reply \in Replies(calls[k].method) :
          /\ reply.ok = ok
          /\ calls' = [calls EXCEPT ![k].reply = reply]
          /\ LET q == calls[k].request
             IN  requests' = [requests EXCEPT ![q] =
                    IF reply.ok
                        THEN [@ EXCEPT !.state = "fulfilled",
                                       !.value = ReturnValue(requests[q].op, reply.value)]
                        ELSE [@ EXCEPT !.state = "rejected", !.value = reply.value]]
    /\ UNCHANGED <<phase, settings, lifecycleVars, probeVars, daemon, cache,
                   created, inbound, emitted>>

(***************************************************************************)
(* The specification of the client's lifecycle.                            *)
(***************************************************************************)
Next ==
    \/ Construct
    \/ Connect
    \/ \E c \in 1..MaxStimuli, resolved \in BOOLEAN : ConnectResolve(c, resolved)
    \/ \E t \in 1..MaxStimuli : Tick(t)
    \/ \E n \in 1..MaxStimuli, r \in ProbeOutcomes : ProbeResolve(n, r)
    \/ \E i \in 1..MaxStimuli, ev \in Signals : Deliver(i, ev)

Spec == Init /\ [][Next]_vars

(***************************************************************************)
(* The specification of the dispatch: a client with the default settings   *)
(* that connects and receives the signals of DispatchSignals, on one       *)
(* interface or on several.                                                *)
(***************************************************************************)
InitDispatch == Init /\ settings = DefaultSettings

NextDispatch ==
    \/ Construct
    \/ Connect
    \/ \E c \in 1..MaxStimuli, resolved \in BOOLEAN : ConnectResolve(c, resolved)
    \/ \E i \in 1..MaxStimuli, ev \in DispatchSignals : Deliver(i, ev)

SpecDispatch == InitDispatch /\ [][NextDispatch]_vars

(***************************************************************************)
(* The specification of the health check with a daemon that becomes        *)
(* unreachable: a client with the default settings, its connect() calls,   *)
(* its timers and their probes.  A running timer keeps firing, and a       *)
(* probe issued to the unreachable daemon settles; a probe issued before   *)
(* may never settle.                                                       *)
(***************************************************************************)
InitLive == Init /\ settings = DefaultSettings

TimerFires == \E t \in 1..MaxStimuli : Tick(t)

DownProbeSettles ==
    \E n \in 1..MaxStimuli, r \in ProbeOutcomes :
        /\ \E p \in probes : p.n = n /\ p.down
        /\ ProbeResolve(n, r)

NextLive ==
    \/ Construct
    \/ Connect
    \/ \E c \in 1..MaxStimuli, resolved \in BOOLEAN : ConnectResolve(c, resolved)
    \/ \E t \in 1..MaxStimuli : Tick(t)
    \/ \E n \in 1..MaxStimuli, r \in ProbeOutcomes : ProbeResolve(n, r)
    \/ DaemonDown

LiveSpec ==
    InitLive /\ [][NextLive]_vars /\ WF_vars(TimerFires) /\ WF_vars(DownProbeSettles)

(***************************************************************************)
(* The specification of the set-up: a client constructed with any of the   *)
(* settings of SetupInputs, its connect() calls, its timers and their      *)
(* probes.                                                                 *)
(***************************************************************************)
InitSetup == settings \in SetupInputs /\ Unconstructed

NextSetup ==
    \/ Construct
    \/ Connect
    \/ \E c \in 1..MaxStimuli, resolved \in BOOLEAN : ConnectResolve(c, resolved)
    \/ \E t \in 1..MaxStimuli : Tick(t)
    \/ \E n \in 1..MaxStimuli, r \in ProbeOutcomes : ProbeResolve(n, r)

SpecSetup == InitSetup /\ [][NextSetup]_vars

(***************************************************************************)
(* The specification of the outbound operations: a client with the         *)
(* default settings that connects, receives direct messages of two peers   *)
(* and a group message, and whose application calls the operations of the  *)
(* conversations of the peers.                                             *)
(***************************************************************************)
SendSignals ==
    { Signal("MessageReceivedV2", "+15551234567", <<>>, "hello"),
      Signal("MessageReceived", "+15557654321", <<>>, "hello"),
      Signal("MessageReceivedV2", "+15551234567", <<102, 111>>, "hello") }

Conversations == {ConversationFrom(id, oid) : id \in Senders, oid \in 1..MaxStimuli}

NextSend ==
    \/ Construct
    \/ Connect
    \/ \E c \in 1..MaxStimuli, resolved \in BOOLEAN : ConnectResolve(c, resolved)
    \/ \E i \in 1..MaxStimuli, ev \in SendSignals : Deliver(i, ev)
    \/ \E this \in Conversations, content \in Contents, attachments \in AttachmentLists :
          SendMessage(this, content, attachments)
    \/ \E this \in Conversations, stop \in StopFlags : SendTyping(this, stop)
    \/ \E this \in Conversations : ResetSession(this)
    \/ \E k \in 1..MaxStimuli, ok \in BOOLEAN : CallSettle(k, ok)

SpecSend == InitDispatch /\ [][NextSend]_vars

(***************************************************************************)
(* The specification of the decoding: a client with the default settings   *)
(* that connects and receives MessageReceivedV2 signals with a message     *)
(* and extras that are present, empty or missing, without a group          *)
(* identifier (the empty byte array of a direct message) and with one.     *)
(***************************************************************************)
DecodeSignals ==
    { Payload("MessageReceivedV2", "+15551234567", <<>>, text, list) :
          text \in {JsStr("hello"), JsStr(""), JsUndefined},
          list \in {JsArray(<<JsStr("sticker")>>), JsArray(<<>>), JsUndefined} }
    \cup { Payload("MessageReceivedV2", "+15557654321", <<102, 111>>, JsUndefined, JsUndefined) }

NextDecode ==
    \/ Construct
    \/ Connect
    \/ \E c \in 1..MaxStimuli, resolved \in BOOLEAN : ConnectResolve(c, resolved)
    \/ \E i \in 1..MaxStimuli, ev \in DecodeSignals : Deliver(i, ev)

SpecDecode == InitDispatch /\ [][NextDecode]_vars

(***************************************************************************)
(* What the claims speak of.                                               *)
(***************************************************************************)
\* The positions of the disconnect events among the emitted events, and
\* those reporting a probe that timer t issued.
Disconnects == {k \in 1..Len(emitted) : emitted[k].kind = "disconnect"}

DisconnectsOf(t) == {k \in Disconnects : emitted[k].probe.timer = t}

\* The outcome r is a failure whose body holds the allowlisted string.
HasAllowlistedBody(r) ==
    /\ ~r.ok
    /\ r.hasReply
    /\ r.body # <<>>
    /\ UnauthenticatedQuoteException \in {Head(r.body)[j] : j \in 1..Len(Head(r.body))}

\* The step settles a probe, and lastOutcome' tells how.
ProbeSettles == probes' # probes /\ issued' = issued

\* The session as the application finds it: the timers, the transports, the
\* interfaces with their listeners, and the three handles of the client.
sessionVars == <<timers, buses, ifaces, bus, busInterface, connectionCheckInterval>>

\* The step emits the disconnect event.
EmitsDisconnect ==
    /\ Len(emitted') > Len(emitted)
    /\ emitted'[Len(emitted')].kind = "disconnect"

(***************************************************************************)
(* C1.  A probe failure whose body does not hold the allowlisted string    *)
(* makes the client emit exactly one disconnect event for the session of   *)
(* the probe, and after that event no probe is issued in that session:     *)
(* the timers of one session never account for two disconnect events, and  *)
(* no timer fires a probe once a disconnect event has reported its         *)
(* session.                                                                *)
(***************************************************************************)
C1_OneDisconnectPerSession ==
    \A t \in 1..MaxStimuli : Cardinality(DisconnectsOf(t)) <= 1

FirstDisconnectOf(t) == CHOOSE k \in DisconnectsOf(t) : \A j \in DisconnectsOf(t) : k <= j

C1_NoProbeAfterDisconnect ==
    \A t \in 1..MaxStimuli :
        DisconnectsOf(t) # {}
           => \A p \in probes : p.timer = t => p.n <= emitted[FirstDisconnectOf(t)].issued

C1_DisconnectExactlyOnce == C1_OneDisconnectPerSession /\ C1_NoProbeAfterDisconnect

(***************************************************************************)
(* C2.  A probe that succeeds, or that fails with a body holding the       *)
(* allowlisted string, causes no action: the step that settles it emits    *)
(* nothing, and leaves every timer running, every transport as it was and  *)
(* every listener attached.                                                *)
(***************************************************************************)
C2_QuietProbeNoAction ==
    [][ (ProbeSettles /\ (lastOutcome'.ok \/ HasAllowlistedBody(lastOutcome')))
          => (emitted' = emitted /\ UNCHANGED sessionVars) ]_vars

\* A probe has failed with the allowlisted body, nothing was ever emitted,
\* the timer is running with its transport open and its listeners attached,
\* and the latest probe it issued is in flight.
C2_Witness ==
    /\ lastOutcome # [none |-> TRUE]
    /\ HasAllowlistedBody(lastOutcome)
    /\ emitted = <<>>
    /\ connectionCheckInterval \in timers
    /\ buses[bus].open
    /\ busInterface # 0
    /\ ifaces[busInterface].listeners = ListenerNames
    /\ \E p \in probes : p.n = issued /\ p.timer = connectionCheckInterval /\ issued >= 2

(***************************************************************************)
(* C3.  Once the daemon is unreachable while a timer is running, the       *)
(* client eventually emits a disconnect event, even with earlier probes    *)
(* that never settle: the timer fires again, and the probe it then issues  *)
(* fails.  (The model stops producing stimuli at MaxStimuli; the claim is  *)
(* about the behaviours that have not reached that horizon with no probe   *)
(* to the unreachable daemon in flight.)                                   *)
(***************************************************************************)
Horizon == ~MayStimulate /\ \A p \in probes : ~p.down

DetectedUnreachable == \E k \in Disconnects : emitted[k].daemon = "down"

C3_UnreachableIsDetected ==
    (daemon = "down" /\ timers # {}) ~> (DetectedUnreachable \/ Horizon)

\* The daemon is unreachable, a probe issued before is still in flight, and
\* the failure of a later probe has been reported by a disconnect event.
C3_Witness ==
    /\ daemon = "down"
    /\ \E p \in probes : \E k \in Disconnects :
          /\ ~p.down
          /\ emitted[k].probe.down
          /\ emitted[k].probe.timer = p.timer
          /\ emitted[k].probe.n > p.n

Attached == {i \in DOMAIN ifaces : ifaces[i].listeners # {}}

\* The step opens transport b.
Opens(b) == b <= Len(buses') /\ buses'[b].open /\ (b > Len(buses) \/ ~buses[b].open)

\* The step resolves the proxy of connect() call c, starts its timer or binds
\* listeners on its interface.
SetsUp(c) ==
    \/ c \in DOMAIN ifaces' \ DOMAIN ifaces
    \/ c \in timers' \ timers
    \/ c \in DOMAIN ifaces /\ c \in DOMAIN ifaces'
         /\ ~(ifaces'[c].listeners \subseteq ifaces[c].listeners)

\* Only the step of a connect() call opens a transport, the one of the call.
OpensByConnect ==
    /\ Len(buses') = Len(connectCalls')
    /\ \A b \in 1..MaxStimuli :
          Opens(b) => (b = Len(connectCalls) + 1 /\ Len(connectCalls') = b)

Messages == {k \in 1..Len(emitted) : emitted[k].kind \in {"message", "messagev2"}}

ConversationAt(k) == emitted[k].message.conversation

C6_OneConversationPerIdentifier ==
    /\ \A j \in Messages : \A k \in Messages :
          ConversationAt(j).id = ConversationAt(k).id
             => ConversationAt(j).oid = ConversationAt(k).oid
    /\ \A k \in Messages :
          /\ ConversationAt(k).id \in DOMAIN cache
          /\ cache[ConversationAt(k).id] = ConversationAt(k)
    /\ \A id \in DOMAIN cache : cache[id].id = id
    /\ created = Cardinality(DOMAIN cache)
    /\ Cardinality({cache[id].oid : id \in DOMAIN cache}) = created

\* A message event and a messagev2 event of two sessions, the disconnect
\* event of the first and the connect() call of the second between them,
\* carry the one Conversation of their identifier.
C6_Witness ==
    \E j \in Messages : \E k \in Messages : \E d \in Disconnects :
        /\ j < d /\ d < k
        /\ emitted[j].kind # emitted[k].kind
        /\ emitted[d].connects = 1
        /\ inbound[emitted[j].src].iface = 1 /\ inbound[emitted[k].src].iface = 2
        /\ ConversationAt(j) = ConversationAt(k)
        /\ created = 1

(***************************************************************************)
(* C7.  The conversation of every emitted message, of either kind, has     *)
(* the identifier the signal resolves to: the sender when the group        *)
(* identifier is empty, the base64 encoding of the group identifier        *)
(* otherwise (for "f", "fo" and "foob" the encodings RFC 4648 lists).      *)
(***************************************************************************)
Rfc4648 ==
    (<<102>> :> "Zg==") @@ (<<102, 111>> :> "Zm8=") @@ (<<102, 111, 111, 98>> :> "Zm9vYg==")

ResolvedIdentifier(signal) ==
    IF signal.groupID = <<>> THEN signal.sender ELSE Rfc4648[signal.groupID]

C7_ConversationIdentifier ==
    \A k \in Messages :
        ConversationAt(k).id = ResolvedIdentifier(inbound[emitted[k].src].signal)

\* Both listeners have resolved a direct and a group identifier.
C7_Witness ==
    \E j \in Messages : \E k \in Messages :
        /\ emitted[j].kind = "message" /\ emitted[k].kind = "messagev2"
        /\ {ConversationAt(j).id, ConversationAt(k).id} = {"+15557654321", "Zm9vYg=="}
        /\ \E m \in Messages : \E n \in Messages :
              /\ emitted[m].kind = "messagev2" /\ emitted[n].kind = "message"
              /\ {ConversationAt(m).id, ConversationAt(n).id} = {"+15551234567", "Zg=="}

(***************************************************************************)
(* C8.  The message, messagev2 and error events the client emits are the   *)
(* signals its listeners heard, one event of the matching kind and         *)
(* content per signal, in the order of delivery, at every moment: a        *)
(* listener has emitted its event before the next signal is taken.         *)
(***************************************************************************)
Heard == SelectSeq(inbound, LAMBDA d : d.heard)

HeardAt == SelectSeq([k \in 1..Len(inbound) |-> k], LAMBDA k : inbound[k].heard)

Relayed == SelectSeq(emitted, LAMBDA e : e.kind # "disconnect")

EventOf(signalKind) ==
    CASE signalKind = "error" -> "error"
      [] signalKind = "MessageReceivedV2" -> "messagev2"
      [] signalKind = "MessageReceived" -> "message"

Carries(e, signal) ==
    CASE e.kind = "error" -> e.error = signal.text
      [] e.kind = "messagev2" ->
            e.message.sender = signal.sender /\ e.message.message = signal.text
      [] e.kind = "message" ->
            e.message.authorID = signal.sender /\ e.message.content = signal.text

C8_EventsFollowSignals ==
    /\ Len(Relayed) = Len(Heard)
    /\ \A k \in 1..Len(Relayed) :
          /\ Relayed[k].src = HeardAt[k]
          /\ Relayed[k].kind = EventOf(Heard[k].signal.kind)
          /\ Carries(Relayed[k], Heard[k].signal)

\* Three signals of the three kinds have been heard and relayed in order.
C8_Witness ==
    /\ Len(Relayed) = 3
    /\ Relayed[1].kind = "messagev2"
    /\ Relayed[2].kind = "error"
    /\ Relayed[3].kind = "message"
    /\ Relayed[1].message.conversation.id # Relayed[3].message.conversation.id

(***************************************************************************)
(* C9.  An error signal is not fatal: the step in which the error          *)
(* listener hears one emits exactly one error event carrying it, and       *)
(* leaves the timers, the transports, the listeners, the probes in flight  *)
(* and the conversation cache as they were.                                *)
(***************************************************************************)
HearsError ==
    /\ Len(inbound') = Len(inbound) + 1
    /\ inbound'[Len(inbound')].signal.kind = "error"
    /\ inbound'[Len(inbound')].heard

C9_ErrorIsNotFatal ==
    [][ HearsError =>
          /\ emitted' = Append(emitted, [kind |-> "error", src |-> Len(inbound'),
                                         error |-> inbound'[Len(inbound')].signal.text])
          /\ UNCHANGED sessionVars
          /\ UNCHANGED <<probes, issued, cache, created>> ]_vars

\* After an error event the session goes on: the timer runs, the transport
\* is open, and the next signal on the interface was relayed as a message.
C9_Witness ==
    /\ Len(emitted) = 3
    /\ emitted[1].kind = "message"
    /\ emitted[2].kind = "error"
    /\ emitted[3].kind = "messagev2"
    /\ inbound[2].iface = busInterface /\ inbound[3].iface = busInterface
    /\ connectionCheckInterval \in timers
    /\ buses[bus].open
    /\ DOMAIN cache = {"+15551234567"}

(***************************************************************************)
(* C10.  With a connectionCheckInterval that is not a number the           *)
(* constructor throws, and no transport call is ever made: the client is   *)
(* never ready, no bus is opened, no proxy is resolved, no timer is        *)
(* started and no listener is bound.                                       *)
(***************************************************************************)
C10_BadIntervalNoTransport ==
    settings.connectionCheckInterval.typeof # "number"
       => /\ phase # "ready"
          /\ buses = <<>> /\ connectCalls = <<>> /\ bus = 0
          /\ ifaces = <<>> /\ busInterface = 0
          /\ timers = {} /\ connectionCheckInterval = 0

\* The constructor has thrown on the interval "5000".
C10_Witness ==
    /\ settings.connectionCheckInterval = JsStr("5000")
    /\ phase = "threw"

(***************************************************************************)
(* C11.  Set-up fails whenever connectionCheckInterval is not a positive   *)
(* number (zero, a negative number and NaN included), and no health-check  *)
(* timer runs with an interval that is not positive: with such an          *)
(* interval the client is never ready, and every running timer was given   *)
(* a positive delay.                                                       *)
(***************************************************************************)
IsPositiveNumber(x) == x.typeof = "number" /\ x.str # "NaN" /\ x.num > 0

C11_PositiveIntervalOrFail ==
    /\ ~IsPositiveNumber(settings.connectionCheckInterval) => phase # "ready"
    /\ \A t \in timers : IsPositiveNumber(TimerInterval(t))

(***************************************************************************)
(* C12.  With a destination that is not a string, a scope other than       *)
(* "system" and "session", or an account identifier that is missing or     *)
(* begins with "+", the constructor throws and no transport is opened;     *)
(* and every transport that is opened is the session bus exactly when the  *)
(* scope is "session" and the system bus otherwise, with the proxy         *)
(* addressed by the account identifier.                                    *)
(***************************************************************************)
BadDestination(s) == s.destination.typeof # "string"

BadScope(s) == s.type \notin {JsStr("system"), JsStr("session")}

BadAccount(s) == s.phoneNumber = JsUndefined \/ s.phoneNumber = JsStr("+15551234567")

PathOfAccount ==
    ("15551234567" :> "/org/asamk/Signal/_15551234567")
    @@ ("15557654321" :> "/org/asamk/Signal/_15557654321")

C12_SettingsDecideTransport ==
    /\ (BadDestination(settings) \/ BadScope(settings) \/ BadAccount(settings))
          => /\ phase # "ready"
             /\ buses = <<>> /\ connectCalls = <<>> /\ bus = 0
             /\ ifaces = <<>> /\ busInterface = 0
    /\ \A b \in 1..Len(buses) :
          /\ buses[b].scope \in {"session", "system"}
          /\ buses[b].scope = "session" <=> settings.type = JsStr("session")
    /\ \A i \in DOMAIN ifaces :
          /\ ifaces[i].path = PathOfAccount[settings.phoneNumber.str]
          /\ ifaces[i].destination = settings.destination.str

\* The client of the second account with the scope "session" has opened the
\* session bus and resolved the proxy of that account on it.
C12_Witness ==
    /\ settings.type = JsStr("session")
    /\ settings.phoneNumber = JsStr("15557654321")
    /\ bus = 1 /\ buses[1].scope = "session" /\ buses[1].open
    /\ busInterface = 1
    /\ ifaces[1].path = "/org/asamk/Signal/_15557654321"

(***************************************************************************)
(* C13.  sendMessage(content, attachments) on a Direct conversation with   *)
(* identifier id makes exactly one sendMessage call on the interface,      *)
(* with that content, those attachments (the empty list when omitted) and  *)
(* the recipients [id]; it changes nothing of the client; it returns the   *)
(* timestamp of the daemon as a number; and when the call fails it         *)
(* rejects with the error of the call, and no second call is made.         *)
(***************************************************************************)
CallsOf(q) == {k \in 1..Len(calls) : calls[k].request = q}

Wrapped(id) == [typeof |-> "object", items |-> <<[typeof |-> "string", num |-> 0, str |-> id]>>]

Pending == [pending |-> TRUE]

\* The state of the client apart from the requests and their calls.
clientVars == <<phase, settings, bus, busInterface, connectionCheckInterval, buses,
                connectCalls, ifaces, timers, probes, issued, lastOutcome, daemon,
                cache, created, inbound, emitted>>

SendMessageContract ==
    \A q \in 1..Len(requests) :
        requests[q].op = "sendMessage" =>
            \E k \in 1..Len(calls) :
                /\ CallsOf(q) = {k}
                /\ calls[k].method = "sendMessage"
                /\ calls[k].args =
                      << requests[q].args[1],
                         IF requests[q].args[2].typeof = "undefined"
                             THEN [typeof |-> "object", items |-> <<>>]
                             ELSE requests[q].args[2],
                         Wrapped(requests[q].this.id) >>
                /\ requests[q].state = "awaiting" <=> calls[k].reply = Pending
                /\ requests[q].state = "fulfilled" =>
                      /\ calls[k].reply.ok
                      /\ requests[q].value =
                            [typeof |-> "number", num |-> calls[k].reply.value.num, str |-> ""]
                /\ requests[q].state = "rejected" =>
                      /\ ~calls[k].reply.ok
                      /\ requests[q].value = calls[k].reply.value

C13_SendMessageForwardsOnce ==
    [][ (requests' # requests \/ calls' # calls)
          => (UNCHANGED clientVars /\ SendMessageContract') ]_vars

\* A sendMessage without attachments has returned the timestamp, and one
\* with attachments has failed, on the conversation of one peer.
C13_Witness ==
    \E q \in 1..Len(requests) : \E r \in 1..Len(requests) :
        /\ requests[q].op = "sendMessage" /\ requests[r].op = "sendMessage"
        /\ requests[q].this.id = "+15551234567" /\ requests[r].this = requests[q].this
        /\ requests[q].args[2] = JsUndefined
        /\ requests[q].state = "fulfilled" /\ requests[q].value = JsNum(1700000123)
        /\ requests[r].args[2] # JsUndefined
        /\ requests[r].state = "rejected"
        /\ Len(calls) = 2

(***************************************************************************)
(* C14.  As claimed: sendTyping(stop) and resetSession() on a              *)
(* conversation with identifier id each make exactly one call on the       *)
(* interface, sendTyping and sendEndSessionMessage, whose first argument   *)
(* is the one-element list [id].                                           *)
(***************************************************************************)
MethodOf(op) == IF op = "sendTyping" THEN "sendTyping" ELSE "sendEndSessionMessage"

C14_IdentifierWrapped ==
    \A q \in 1..Len(requests) :
        requests[q].op \in {"sendTyping", "resetSession"} =>
            \E k \in 1..Len(calls) :
                /\ CallsOf(q) = {k}
                /\ calls[k].method = MethodOf(requests[q].op)
                /\ calls[k].args[1] = Wrapped(requests[q].this.id)

(***************************************************************************)
(* C14, amended.  Each of the two makes exactly one call on the            *)
(* interface: sendTyping(stop) the call sendTyping(id, stop), with the     *)
(* identifier itself and stop (false when omitted); resetSession() the     *)
(* call sendEndSessionMessage([id]), with the identifier in a one-element  *)
(* list.                                                                   *)
(***************************************************************************)
C14_TypingBareResetWrapped ==
    \A q \in 1..Len(requests) :
        requests[q].op \in {"sendTyping", "resetSession"} =>
            \E k \in 1..Len(calls) :
                /\ CallsOf(q) = {k}
                /\ calls[k].method = MethodOf(requests[q].op)
                /\ requests[q].op = "sendTyping" =>
                      calls[k].args =
                         << [typeof |-> "string", num |-> 0, str |-> requests[q].this.id],
                            IF requests[q].args[1].typeof = "undefined"
                                THEN [typeof |-> "boolean", bool |-> FALSE]
                                ELSE requests[q].args[1] >>
                /\ requests[q].op = "resetSession" =>
                      calls[k].args = << Wrapped(requests[q].this.id) >>

\* sendTyping(), sendTyping(true) and resetSession() have been called on
\* the conversation of one peer, and the daemon has replied to all three.
C14_Witness ==
    /\ Len(requests) = 3
    /\ requests[1].op = "sendTyping" /\ requests[1].args = <<JsUndefined>>
    /\ requests[2].op = "sendTyping" /\ requests[2].args = <<JsBool(TRUE)>>
    /\ requests[3].op = "resetSession"
    /\ \A q \in 1..3 : requests[q].state = "fulfilled" /\ requests[q].this.id = "+15557654321"

(***************************************************************************)
(* C15.  No eviction: an identifier in the conversation cache stays in     *)
(* it, mapped to the same Conversation, through every step: a message, an  *)
(* error of the transport, a probe and its outcome, the teardown, a new    *)
(* connect().                                                              *)
(***************************************************************************)
C15_NoEviction ==
    [][ \A id \in DOMAIN cache : id \in DOMAIN cache' /\ cache'[id] = cache[id] ]_vars

\* Two conversations were cached by a message and a messagev2 event; an
\* error and the teardown followed, and both are still in the cache.
C15_Witness ==
    /\ Len(emitted) = 4
    /\ emitted[1].kind = "message" /\ emitted[2].kind = "messagev2"
    /\ emitted[3].kind = "error" /\ emitted[4].kind = "disconnect"
    /\ emitted[1].message.conversation # emitted[2].message.conversation
    /\ \A k \in 1..2 :
          LET c == emitted[k].message.conversation
          IN  c.id \in DOMAIN cache /\ cache[c.id] = c
    /\ Cardinality(DOMAIN cache) = 2

(***************************************************************************)
(* C16.  Decoding has no error outcome: every MessageReceivedV2 signal     *)
(* the listener hears, whatever of its message, its extras and its group   *)
(* identifier is missing, yields exactly one messagev2 event, whose        *)
(* message is the empty string when the text is missing, whose extras are  *)
(* the empty list when they are missing, and whose conversation is the     *)
(* sender's when there is no group identifier.                             *)
(***************************************************************************)
Absent(x) == x.typeof = "undefined"

EventsOf(k) == {j \in 1..Len(emitted) : emitted[j].kind # "disconnect" /\ emitted[j].src = k}

C17_AtMostOneTimer ==
    [][ /\ Cardinality(timers') <= 1
        /\ EmitsDisconnect => timers' = {} ]_vars

(***************************************************************************)
(* C18.  A probe tears down only the session in which it was issued: when  *)
(* a probe settles whose session was disconnected while it was in flight,  *)
(* and the application has called connect() since, then the timers, the    *)
(* transports and the listeners of the other sessions are left as they     *)
(* were.                                                                   *)
(***************************************************************************)
\* Probe p is stale: a disconnect event has reported its session, and the
\* application has called connect() after that event.
Stale(p) ==
    /\ DisconnectsOf(p.timer) # {}
    /\ Len(connectCalls) > emitted[FirstDisconnectOf(p.timer)].connects

\* The step leaves the sessions other than c as they are.
LeavesOthers(c) ==
    /\ timers' \ {c} = timers \ {c}
    /\ Len(buses') = Len(buses)
    /\ \A b \in 1..Len(buses) : b # c => buses'[b] = buses[b]
    /\ DOMAIN ifaces' = DOMAIN ifaces
    /\ \A i \in DOMAIN ifaces : i # c => ifaces'[i] = ifaces[i]

C18_StaleProbeSparesNewSession ==
    [][ ProbeSettles => \A p \in probes \ probes' : Stale(p) => LeavesOthers(p.timer) ]_vars

(***************************************************************************)
(* C19.  After a disconnect event and until the application calls          *)
(* connect() again, the client emits no message, messagev2 or error event  *)
(* and inserts nothing into the conversation cache, whatever the old       *)
(* transport still delivers.                                               *)
(***************************************************************************)
LastDisconnect == CHOOSE k \in Disconnects : \A j \in Disconnects : j <= k

\* A disconnect event was emitted and connect() has not been called since.
Disconnected ==
    /\ Disconnects # {}
    /\ Len(connectCalls) = emitted[LastDisconnect].connects

C19_SilentAfterDisconnect ==
    [][ Disconnected =>
          /\ cache' = cache
          /\ \A j \in (Len(emitted) + 1)..Len(emitted') : emitted'[j].kind = "disconnect" ]_vars

====
